---- MODULE Spec2Model ----
(***************************************************************************)
(* A model of the HUSH backend (src/main.py): the FedAvg accumulator kept  *)
(* in two module globals, the snapshot table of hush.db, the lifespan      *)
(* bootstrap and the three HTTP endpoints.                                 *)
(*                                                                         *)
(* Sync endpoints run on the framework's thread pool, so two requests may  *)
(* overlap: submit_model_update is split into one step per source line     *)
(* that reads or writes a module global (116, 118, 122), with the three    *)
(* folds (119-121), the building of the row (125-130) and the store write  *)
(* with the return (132-137) one step each.  Lines that touch only locals  *)
(* belong to the step before them.  The three folds write three different  *)
(* keys; taken one by one they would add only runs in which the features   *)
(* are folded in different orders.                                         *)
(*                                                                         *)
(* Floats are modelled by exact rationals <<n, d>> in lowest terms: the    *)
(* model says nothing about binary rounding.  Timestamps are strings,      *)
(* modelled as sequences of ASCII codes and ordered code by code, as the   *)
(* store orders them.                                                      *)
(***************************************************************************)
EXTENDS Integers, Sequences, FiniteSets, TLC

\* ------------------------------------------------------------- bounds
\* Submit-update requests accepted by the parser, over the whole run.
MaxUpdates == 2

\* The worker threads that serve requests.
Workers == {1, 2}

Features == <<"text", "typing", "voice">>
FeatureSet == {Features[i] : i \in 1..Len(Features)}

\* ------------------------------------------------------------- numbers
RECURSIVE Gcd(_, _)
Gcd(a, b) == IF b = 0 THEN a ELSE Gcd(b, a % b)

Abs(x) == IF x < 0 THEN -x ELSE x

\* The rational n/d (d # 0) in lowest terms with a positive denominator.
Rat(n, d) ==
    LET g == Gcd(Abs(n), Abs(d))
        s == IF d < 0 THEN -1 ELSE 1
    IN  <<(s * n) \div g, (s * d) \div g>>

Zero == Rat(0, 1)
RatAdd(x, y) == Rat(x[1] * y[2] + y[1] * x[2], x[2] * y[2])
RatMul(x, y) == Rat(x[1] * y[1], x[2] * y[2])
RatDiv(x, y) == Rat(x[1] * y[2], x[2] * y[1])
RatOfInt(i) == Rat(i, 1)

Max(a, b) == IF a >= b THEN a ELSE b

\* ------------------------------------------------------------- strings
\* Code-by-code (lexicographic) order of two strings; a proper prefix is
\* smaller.
StrLess(s, t) ==
    LET n == IF Len(s) <= Len(t) THEN Len(s) ELSE Len(t)
        differ == {i \in 1..n : s[i] # t[i]}
    IN  IF differ = {} THEN Len(s) < Len(t)
        ELSE LET first == CHOOSE i \in differ : \A j \in differ : i <= j
             IN  s[first] < t[first]

StrLeq(s, t) == s = t \/ StrLess(s, t)

\* n in decimal, zero-padded to w digits.
RECURSIVE Digits(_, _)
Digits(n, w) ==
    IF w = 0 THEN <<>> ELSE Append(Digits(n \div 10, w - 1), 48 + (n % 10))

\* The wall clock after t ticks of half a second.  The process is taken to
\* start on the day after the seed rows' date.
ClockAt(t) ==
    [year |-> 2025, month |-> 11, day |-> 2, hour |-> 9, minute |-> 0,
     second |-> t \div 2, microsecond |-> (t % 2) * 500000]

\* datetime.isoformat(): YYYY-MM-DDTHH:MM:SS, then .ffffff unless the
\* microsecond is 0.  A naive datetime has no zone suffix.
isoformat(dt) ==
    Digits(dt.year, 4) \o <<45>> \o Digits(dt.month, 2) \o <<45>>
        \o Digits(dt.day, 2) \o <<84>> \o Digits(dt.hour, 2) \o <<58>>
        \o Digits(dt.minute, 2) \o <<58>> \o Digits(dt.second, 2)
        \o (IF dt.microsecond = 0 THEN <<>>
            ELSE <<46>> \o Digits(dt.microsecond, 6))

\* "2025-11-01T10:00:00Z", "2025-11-01T11:00:00Z", "2025-11-01T12:00:00Z"
SeedTs1 == <<50,48,50,53,45,49,49,45,48,49,84,49,48,58,48,48,58,48,48,90>>
SeedTs2 == <<50,48,50,53,45,49,49,45,48,49,84,49,49,58,48,48,58,48,48,90>>
SeedTs3 == <<50,48,50,53,45,49,49,45,48,49,84,49,50,58,48,48,58,48,48,90>>

\* ------------------------------------------------------------- requests
\* JSON values of a request body: a number (a rational) or a string.
Num(n, d) == [kind |-> "num", val |-> Rat(n, d)]
Str(codes) == [kind |-> "str", val |-> codes]

\* The documented example: all three features, user id "u1".
BodyFull ==
    [feature_attributions |->
        [k \in {"text", "typing", "voice"} |->
            IF k = "text" THEN Num(7, 10)
            ELSE IF k = "typing" THEN Num(1, 5) ELSE Num(1, 10)],
     user_id |-> Str(<<117, 49>>)]

\* No "voice" key, an unknown key, an empty user id.
BodyNoVoice ==
    [feature_attributions |->
        [k \in {"text", "typing", "mood"} |->
            IF k = "typing" THEN Num(1, 1) ELSE Num(0, 1)],
     user_id |-> Str(<<>>)]

\* An empty mapping: every feature key is missing.
BodyEmpty ==
    [feature_attributions |-> [k \in {} |-> Num(0, 1)],
     user_id |-> Str(<<117, 50>>)]

\* A value that is no number ("high").
BodyBadValue ==
    [feature_attributions |-> [k \in {"text"} |-> Str(<<104, 105, 103, 104>>)],
     user_id |-> Str(<<117, 49>>)]

\* No user_id field.
BodyNoUser ==
    [feature_attributions |-> [k \in {"text"} |-> Num(1, 1)]]

\* ModelUpdatePayload: feature_attributions is a mapping whose values are
\* floats, user_id is a string; nothing else is required.
Validates(body) ==
    /\ "feature_attributions" \in DOMAIN body
    /\ "user_id" \in DOMAIN body
    /\ body.user_id.kind = "str"
    /\ \A k \in DOMAIN body.feature_attributions :
          body.feature_attributions[k].kind = "num"

\* The parsed payload: the mapping's values as floats, the user id.
Parse(body) ==
    [feature_attributions |->
        [k \in DOMAIN body.feature_attributions |->
            body.feature_attributions[k].val],
     user_id |-> body.user_id.val]

NoPayload == [feature_attributions |-> [k \in {} |-> Zero], user_id |-> <<>>]

\* A lookup that ignores the default and yields 1 for an absent key.
GetWrongDefault(mapping, key, default) ==
    IF key \in DOMAIN mapping THEN mapping[key] ELSE Rat(1, 1)

\* dict.get(key, default)
Get(mapping, key, default) ==
    IF key \in DOMAIN mapping THEN mapping[key] ELSE default

\* np.random.laplace(0, scale), three independent draws: any real.  The
\* model knows two outcomes of the three draws, one of them all zero.
NoNoise == [f \in FeatureSet |-> Zero]
SomeNoise ==
    [f \in FeatureSet |->
        IF f = "text" THEN Rat(1, 10)
        ELSE IF f = "typing" THEN Rat(-1, 10) ELSE Rat(1, 5)]

\* The requests of the model's runs: a body, the noise drawn for it, and by
\* how many ticks the wall clock has advanced, since it was last read, when
\* the request's row is built.
Requests ==
    { <<BodyFull, NoNoise, 1>>, <<BodyNoVoice, NoNoise, 1>>,
      <<BodyEmpty, SomeNoise, 0>>,
      <<BodyBadValue, NoNoise, 1>>, <<BodyNoUser, NoNoise, 1>> }

\* Lines 110-112: the client's value, 0 when the key is absent, plus noise.
Noisy(attributions, noise) ==
    [f \in FeatureSet |-> RatAdd(Get(attributions, f, Zero), noise[f])]

\* ------------------------------------------------------------- aggregation
InitialWeights ==
    [f \in FeatureSet |->
        IF f = "text" THEN Rat(33, 100)
        ELSE IF f = "typing" THEN Rat(33, 100) ELSE Rat(34, 100)]

InitialCount == 0

\* A total that counts the update twice.
TotalOffByOne(count) == count + 2

\* Line 116.
Total(count) == count + 1

\* Line 118.
Clamp(count) == Max(1, count)

\* A fold that replaces the average by the new value.
FoldOverwrite(w, tot, x) == x

\* Lines 119-121, one feature: (w * (total - 1) + noisy) / total.
Fold(w, tot, x) ==
    RatDiv(RatAdd(RatMul(w, RatOfInt(tot - 1)), x), RatOfInt(tot))

\* ------------------------------------------------------------- store
\* A DashboardDataPoint; id 0 stands for None (not yet inserted).
DataPoint(ts, text, typing, voice) ==
    [id |-> 0, timestamp |-> ts, avg_text_importance |-> text,
     avg_typing_importance |-> typing, avg_voice_importance |-> voice]

Averages(row) ==
    [f \in FeatureSet |->
        IF f = "text" THEN row.avg_text_importance
        ELSE IF f = "typing" THEN row.avg_typing_importance
        ELSE row.avg_voice_importance]

\* Lines 62-66.
db_data ==
    << DataPoint(SeedTs1, Rat(40, 100), Rat(40, 100), Rat(20, 100)),
       DataPoint(SeedTs2, Rat(42, 100), Rat(38, 100), Rat(20, 100)),
       DataPoint(SeedTs3, Rat(38, 100), Rat(45, 100), Rat(17, 100)) >>

\* The integer primary key the store assigns: one more than the largest.
RECURSIVE MaxId(_)
MaxId(rows) ==
    IF rows = <<>> THEN 0 ELSE Max(rows[Len(rows)].id, MaxId(SubSeq(rows, 1, Len(rows) - 1)))

\* A write that replaces the newest row instead of adding one.
InsertOverLast(rows, row) ==
    IF rows = <<>> THEN <<[row EXCEPT !.id = 1]>>
    ELSE [rows EXCEPT ![Len(rows)] = [row EXCEPT !.id = Len(rows)]]

\* session.add + session.commit of one row.
Insert(rows, row) == Append(rows, [row EXCEPT !.id = MaxId(rows) + 1])

RECURSIVE InsertAll(_, _)
InsertAll(rows, new) ==
    IF new = <<>> THEN rows ELSE InsertAll(Insert(rows, Head(new)), Tail(new))

\* An emptiness test that always succeeds.
AlwaysEmptyStore(rows) == TRUE

\* Line 60: select(...).first() finds no row.
IsEmptyStore(rows) == rows = <<>>

\* Lines 59-69.
Bootstrap(rows) == IF IsEmptyStore(rows) THEN InsertAll(rows, db_data) ELSE rows

\* select(...).order_by(timestamp): every row, ascending by the timestamp
\* string.  The order of rows with equal timestamps is the store's choice,
\* so the result is one of a set: the arrangements of the rows at indexes S
\* in which no row precedes one with a smaller timestamp.
RECURSIVE Arrangements(_, _)
Arrangements(rows, S) ==
    IF S = {} THEN {<<>>}
    ELSE UNION {
        {<<rows[i]>> \o rest : rest \in Arrangements(rows, S \ {i})} :
            i \in {j \in S : \A k \in S :
                       StrLeq(rows[j].timestamp, rows[k].timestamp)} }

\* A query without its ORDER BY: the rows in insertion order.
Unordered(rows) == {rows}

OrderByTimestamp(rows) == Arrangements(rows, 1..Len(rows))

\* ------------------------------------------------------------- responses
NoReply == [kind |-> "none", status |-> 0, rows |-> <<>>]
\* GET /: the fixed status payload.
RootReply == [kind |-> "root", status |-> 200, rows |-> <<>>]
\* GET /v1/dashboard-data: the rows, in the order returned.
DashboardReply(rows) == [kind |-> "dashboard", status |-> 200, rows |-> rows]
\* POST /v1/submit-update: 200 with new_data_point, the parser's 422, or
\* the 500 of an unhandled store fault.
UpdateReply(row) == [kind |-> "update", status |-> 200, rows |-> <<row>>]
ParserReply == [kind |-> "update", status |-> 422, rows |-> <<>>]
FaultReply == [kind |-> "update", status |-> 500, rows |-> <<>>]

\* ------------------------------------------------------------- state
VARIABLES
    running,               \* the server process is up
    db,                    \* the rows of hush.db's table, in insertion order
    global_model_weights,  \* line 36
    global_update_count,   \* line 37
    now,                   \* the wall clock, in ticks
    pc,                    \* per worker: the line of submit_model_update it is at
    payload,               \* per worker: the parsed request
    noisy,                 \* per worker: noisy_text, noisy_typing, noisy_voice
    total,                 \* per worker: the local total
    new_data_point,        \* per worker: the row built at lines 125-130
    reply,                 \* the HTTP response the last step sent, if any
    \* history, read by the properties only
    elapsed,               \* per worker: the ticks that pass before it reads the clock
    drawn,                 \* per worker: the noise drawn at lines 110-112
    nstarted,              \* update requests the parser accepted, whole run
    acceptedEver,          \* updates answered 200, whole run
    handled,               \* update requests the parser accepted since the start
    naccepted,             \* updates answered 200 since the process started
    overlapped,            \* two updates were in flight together since the start
    faulted,               \* a store write failed since the process started
    noiseFree,             \* every noise draw since the process started was 0
    sumContrib,            \* per feature: sum of the values submitted since the start
    before,                \* per worker: weights, count, row count at its request's start
    foldW                  \* per worker: the weights right after its fold

vars ==
    <<running, db, global_model_weights, global_update_count, now, pc,
      payload, noisy, total, new_data_point, reply, elapsed, drawn, nstarted,
      acceptedEver, handled, naccepted, overlapped, faulted, noiseFree,
      sumContrib, before, foldW>>

globals == <<global_model_weights, global_update_count>>
locals == <<payload, noisy, total, new_data_point, elapsed>>
sinceStart ==
    <<handled, naccepted, overlapped, faulted, noiseFree, sumContrib>>
history == <<drawn, nstarted, acceptedEver, sinceStart, before, foldW>>

NoRow == DataPoint(<<>>, Zero, Zero, Zero)
NoBefore == [weights |-> InitialWeights, count |-> 0, rows |-> 0]
Quiescent == \A w \in Workers : pc[w] = "idle"

Init ==
    /\ running = FALSE
    /\ db = <<>>
    /\ global_model_weights = InitialWeights
    /\ global_update_count = InitialCount
    /\ now = 0
    /\ pc = [w \in Workers |-> "idle"]
    /\ payload = [w \in Workers |-> NoPayload]
    /\ noisy = [w \in Workers |-> NoNoise]
    /\ total = [w \in Workers |-> 0]
    /\ new_data_point = [w \in Workers |-> NoRow]
    /\ reply = NoReply
    /\ elapsed = [w \in Workers |-> 0]
    /\ drawn = [w \in Workers |-> NoNoise]
    /\ nstarted = 0
    /\ acceptedEver = 0
    /\ handled = 0
    /\ naccepted = 0
    /\ overlapped = FALSE
    /\ faulted = FALSE
    /\ noiseFree = TRUE
    /\ sumContrib = [f \in FeatureSet |-> Zero]
    /\ before = [w \in Workers |-> NoBefore]
    /\ foldW = [w \in Workers |-> InitialWeights]

\* Process start: the module is loaded (lines 36-37), then lifespan runs
\* create_db_and_tables and the bootstrap (lines 57-70).
lifespan ==
    /\ ~running
    /\ running' = TRUE
    /\ global_model_weights' = InitialWeights
    /\ global_update_count' = InitialCount
    /\ db' = Bootstrap(db)
    /\ reply' = NoReply
    /\ handled' = 0
    /\ naccepted' = 0
    /\ overlapped' = FALSE
    /\ faulted' = FALSE
    /\ noiseFree' = TRUE
    /\ sumContrib' = [f \in FeatureSet |-> Zero]
    /\ UNCHANGED <<now, pc, locals, drawn, nstarted, acceptedEver, before,
                   foldW>>

\* Process stop, once no request is in flight (lines 74-75).
shutdown ==
    /\ running
    /\ Quiescent
    /\ running' = FALSE
    /\ reply' = NoReply
    /\ UNCHANGED <<db, globals, now, pc, locals, history>>

\* The three requests below touch no global, and the store changes only at
\* line 133: the model serves them between updates.  Every content of the
\* store is its content between updates in some run, since an update in
\* flight may end with a store fault.

\* GET / (lines 95-98).
read_root ==
    /\ running
    /\ Quiescent
    /\ reply' = RootReply
    /\ UNCHANGED <<running, db, globals, now, pc, locals, history>>

\* GET /v1/dashboard-data (lines 140-148).
get_dashboard_data ==
    /\ running
    /\ Quiescent
    /\ \E results \in OrderByTimestamp(db) : reply' = DashboardReply(results)
    /\ UNCHANGED <<running, db, globals, now, pc, locals, history>>

\* POST /v1/submit-update with a body the request parser refuses: the
\* handler does not run.
parser_rejects ==
    /\ running
    /\ Quiescent
    /\ \E req \in Requests : ~Validates(req[1])
    /\ reply' = ParserReply
    /\ UNCHANGED <<running, db, globals, now, pc, locals, history>>

\* POST /v1/submit-update, lines 102-112: the payload is parsed and the
\* three noisy values are computed.  Which idle thread of the pool serves
\* the request cannot be observed: the lowest one does.
submit_model_update(w) ==
    /\ running
    /\ pc[w] = "idle"
    /\ \A v \in Workers : v < w => pc[v] # "idle"
    /\ nstarted < MaxUpdates
    /\ \E req \in Requests :
      LET body == req[1]
          noise == req[2]
      IN
        /\ Validates(body)
        /\ drawn' = [drawn EXCEPT ![w] = noise]
        /\ elapsed' = [elapsed EXCEPT ![w] = req[3]]
        /\ payload' = [payload EXCEPT ![w] = Parse(body)]
        /\ noisy' = [noisy EXCEPT
                        ![w] = Noisy(Parse(body).feature_attributions, noise)]
        /\ noiseFree' = (noiseFree /\ noise = NoNoise)
        /\ sumContrib' =
              [f \in FeatureSet |->
                  RatAdd(sumContrib[f],
                         Get(Parse(body).feature_attributions, f, Zero))]
    /\ pc' = [pc EXCEPT ![w] = "L116"]
    /\ reply' = NoReply
    /\ nstarted' = nstarted + 1
    /\ handled' = handled + 1
    /\ overlapped' = (overlapped \/ \E v \in Workers \ {w} : pc[v] # "idle")
    /\ before' = [before EXCEPT ![w] =
                     [weights |-> global_model_weights,
                      count |-> global_update_count, rows |-> Len(db)]]
    /\ UNCHANGED <<running, db, globals, now, total, new_data_point,
                   acceptedEver, naccepted, faulted, foldW>>

\* Line 116: total = global_update_count + 1
L116(w) ==
    /\ pc[w] = "L116"
    /\ total' = [total EXCEPT ![w] = Total(global_update_count)]
    /\ pc' = [pc EXCEPT ![w] = "L118"]
    /\ reply' = NoReply
    /\ UNCHANGED <<running, db, globals, now, payload, noisy, new_data_point,
                   elapsed, history>>

\* Line 118: global_update_count = max(1, global_update_count)
L118(w) ==
    /\ pc[w] = "L118"
    /\ global_update_count' = Clamp(global_update_count)
    /\ pc' = [pc EXCEPT ![w] = "L119"]
    /\ reply' = NoReply
    /\ UNCHANGED <<running, db, global_model_weights, now, locals, history>>

\* Lines 119-121: each feature's running average is folded.  The three
\* assignments touch three different keys and are taken as one step.
L119(w) ==
    /\ pc[w] = "L119"
    /\ global_model_weights' =
          [f \in FeatureSet |->
              Fold(global_model_weights[f], total[w], noisy[w][f])]
    /\ foldW' = [foldW EXCEPT ![w] = global_model_weights']
    /\ pc' = [pc EXCEPT ![w] = "L122"]
    /\ reply' = NoReply
    /\ UNCHANGED <<running, db, global_update_count, now, locals, drawn,
                   nstarted, acceptedEver, sinceStart, before>>

\* Line 122: global_update_count = total
L122(w) ==
    /\ pc[w] = "L122"
    /\ global_update_count' = total[w]
    /\ pc' = [pc EXCEPT ![w] = "L125"]
    /\ reply' = NoReply
    /\ UNCHANGED <<running, db, global_model_weights, now, locals, history>>

\* Lines 125-130: the row is built from the wall clock, which has not run
\* backwards since it was last read, and from the weights as they are now.
L125(w) ==
    /\ pc[w] = "L125"
    /\ now' = now + elapsed[w]
    /\ new_data_point' = [new_data_point EXCEPT ![w] =
              DataPoint(isoformat(ClockAt(now')),
                        global_model_weights["text"],
                        global_model_weights["typing"],
                        global_model_weights["voice"])]
    /\ pc' = [pc EXCEPT ![w] = "L132"]
    /\ reply' = NoReply
    /\ UNCHANGED <<running, db, globals, payload, noisy, total, elapsed,
                   history>>

\* The handler is left: its locals are gone.
Finish(w) ==
    /\ pc' = [pc EXCEPT ![w] = "idle"]
    /\ payload' = [payload EXCEPT ![w] = NoPayload]
    /\ noisy' = [noisy EXCEPT ![w] = NoNoise]
    /\ total' = [total EXCEPT ![w] = 0]
    /\ new_data_point' = [new_data_point EXCEPT ![w] = NoRow]
    /\ elapsed' = [elapsed EXCEPT ![w] = 0]
    /\ before' = [before EXCEPT ![w] = NoBefore]
    /\ foldW' = [foldW EXCEPT ![w] = InitialWeights]
    /\ drawn' = [drawn EXCEPT ![w] = NoNoise]

\* Lines 132-137: the row is inserted and committed, read back with its
\* id, and returned.
L132(w) ==
    /\ pc[w] = "L132"
    /\ db' = Insert(db, new_data_point[w])
    /\ reply' = UpdateReply(db'[Len(db')])
    /\ naccepted' = naccepted + 1
    /\ acceptedEver' = acceptedEver + 1
    /\ Finish(w)
    /\ UNCHANGED <<running, globals, now, nstarted, handled, overlapped,
                   faulted, noiseFree, sumContrib>>

\* Lines 132-133 raise (disk full, file locked): nothing is committed, the
\* exception leaves the handler and the framework answers 500.
L132_fault(w) ==
    /\ pc[w] = "L132"
    /\ reply' = FaultReply
    /\ faulted' = TRUE
    /\ Finish(w)
    /\ UNCHANGED <<running, db, globals, now, nstarted, acceptedEver,
                   handled, naccepted, overlapped, noiseFree, sumContrib>>

Next ==
    \/ lifespan
    \/ shutdown
    \/ read_root
    \/ get_dashboard_data
    \/ parser_rejects
    \/ \E w \in Workers : submit_model_update(w)
    \/ \E w \in Workers : L116(w)
    \/ \E w \in Workers : L118(w)
    \/ \E w \in Workers : L119(w)
    \/ \E w \in Workers : L122(w)
    \/ \E w \in Workers : L125(w)
    \/ \E w \in Workers : L132(w)
    \/ \E w \in Workers : L132_fault(w)

Spec == Init /\ [][Next]_vars

\* ------------------------------------------------------------- properties
IsPrefix(s, t) == Len(s) <= Len(t) /\ SubSeq(t, 1, Len(s)) = s

Mean(sum, k) == RatDiv(sum, RatOfInt(k))

\* r holds every row of rows exactly once.
IsPermutation(r, rows) ==
    /\ Len(r) = Len(rows)
    /\ \A i \in 1..Len(rows) :
          Cardinality({j \in 1..Len(r) : r[j] = rows[i]}) = 1

\* r is in non-decreasing order of the timestamp string.
IsAscending(r) ==
    \A i \in 1..(Len(r) - 1) : StrLeq(r[i].timestamp, r[i + 1].timestamp)

Accepted == reply.kind = "update" /\ reply.status = 200

MissingKeys(w) == FeatureSet \ DOMAIN payload[w].feature_attributions

\* mapping with key set to value.
WithKey(mapping, key, value) ==
    [k \in DOMAIN mapping \cup {key} |->
        IF k = key THEN value ELSE mapping[k]]

\* C1: in a run since process start whose updates did not overlap, met no
\* store fault and drew noise 0, once k >= 1 updates are done each
\* feature's weight, and each average of the snapshot just returned, is
\* the sum of the k values submitted for the feature divided by k.
C1_SequentialMean ==
    (Quiescent /\ ~overlapped /\ ~faulted /\ noiseFree /\ naccepted >= 1) =>
        \A f \in FeatureSet :
            /\ global_model_weights[f] = Mean(sumContrib[f], naccepted)
            /\ Accepted =>
                  Averages(reply.rows[1])[f] = Mean(sumContrib[f], naccepted)

\* Two different values a, b were submitted for "text" (7/10 and 0, in
\* either order) and the second update has just been answered with their
\* mean, 7/20.
C1_Witness ==
    /\ Quiescent /\ ~overlapped /\ ~faulted /\ noiseFree
    /\ naccepted = 2
    /\ Accepted
    /\ sumContrib["text"] = Rat(7, 10)
    /\ reply.rows[1].avg_text_importance = Rat(7, 20)
    /\ global_model_weights["typing"] = Rat(3, 5)

\* C2: once bootstrapped, the store holds 3 + k rows, k the updates
\* answered 200 so far, and every step leaves the rows it found in place,
\* unchanged, only ever adding rows after them.
C2_RowCount ==
    /\ [](db # <<>> => Len(db) = 3 + acceptedEver)
    /\ [][IsPrefix(db, db')]_vars

\* Two updates were accepted and a dashboard request then served.
C2_Witness ==
    /\ acceptedEver = 2
    /\ Len(db) = 5
    /\ reply.kind = "dashboard"

\* The three seed rows, with the ids the empty store gives them.
C3_Seeds ==
    << [id |-> 1, timestamp |-> SeedTs1, avg_text_importance |-> Rat(2, 5),
        avg_typing_importance |-> Rat(2, 5), avg_voice_importance |-> Rat(1, 5)],
       [id |-> 2, timestamp |-> SeedTs2, avg_text_importance |-> Rat(21, 50),
        avg_typing_importance |-> Rat(19, 50), avg_voice_importance |-> Rat(1, 5)],
       [id |-> 3, timestamp |-> SeedTs3, avg_text_importance |-> Rat(19, 50),
        avg_typing_importance |-> Rat(9, 20), avg_voice_importance |-> Rat(17, 100)] >>

\* C3: a process start that finds the store empty leaves exactly the three
\* seed rows, one that finds a row leaves the store as it is, and no seed
\* timestamp is ever in the store twice.
C3_Bootstrap ==
    /\ [][(~running /\ running') =>
             IF db = <<>> THEN db' = C3_Seeds ELSE db' = db]_vars
    /\ [](\A ts \in {SeedTs1, SeedTs2, SeedTs3} :
             Cardinality({i \in 1..Len(db) : db[i].timestamp = ts}) <= 1)

\* The process was restarted after an update had been stored: the bootstrap
\* has run on a store with four rows.
C3_Witness ==
    /\ running
    /\ handled = 0
    /\ Len(db) = 4
    /\ SubSeq(db, 1, 3) = C3_Seeds

\* C4: a submit-update the parser refuses, or whose store write faults,
\* appends no row and leaves weights and update_count as they were when
\* the request arrived (stated for requests that overlap no other).
C4_AllOrNothing ==
    /\ [][reply' = ParserReply => (db' = db /\ globals' = globals)]_vars
    /\ [][\A w \in Workers :
            (pc[w] = "L132" /\ pc'[w] = "idle" /\ reply' = FaultReply
                /\ ~overlapped) =>
               /\ db' = db
               /\ global_model_weights' = before[w].weights
               /\ global_update_count' = before[w].count]_vars

\* Every answer the query can give for rows holds each of them exactly
\* once, in non-decreasing order of the timestamp string.
AnswersInOrder(rows) ==
    /\ OrderByTimestamp(rows) # {}
    /\ \A r \in OrderByTimestamp(rows) : IsPermutation(r, rows) /\ IsAscending(r)

\* C5: dashboard-data answers with every stored row exactly once, in
\* non-decreasing order of the timestamp string, and changes neither the
\* store nor the aggregation state; the same is true of the query on every
\* content the store ever takes, and on the empty store it yields the
\* empty list.
C5_Dashboard ==
    /\ OrderByTimestamp(<<>>) = {<<>>}
    /\ [](reply.kind = "dashboard" =>
             IsPermutation(reply.rows, db) /\ IsAscending(reply.rows))
    /\ [][/\ reply'.kind = "dashboard" => (db' = db /\ globals' = globals)
          /\ db' # db => AnswersInOrder(db')]_vars

\* The dashboard has returned rows in another order than they were
\* inserted in: sorting by timestamp moved a row.
C5_Witness ==
    /\ reply.kind = "dashboard"
    /\ Len(reply.rows) = 5
    /\ StrLess(db[5].timestamp, db[4].timestamp)
    /\ reply.rows # db

\* C6: while a request whose mapping lacks a feature's key is handled, its
\* noisy value for that feature is 0 plus the noise drawn, as it is for the
\* same mapping with the key present and 0; the fold uses that value; the
\* request is answered by the handler, not refused; its store write
\* appends one row; and, when it overlapped no other request,
\* update_count ends one above what it was when the request arrived.
C6_MissingKey ==
    /\ [](\A w \in Workers : \A f \in MissingKeys(w) :
            pc[w] # "idle" =>
               /\ noisy[w][f] = RatAdd(Zero, drawn[w][f])
               /\ noisy[w] =
                     Noisy(WithKey(payload[w].feature_attributions, f, Zero),
                           drawn[w]))
    /\ [][\A w \in Workers : \A f \in MissingKeys(w) :
            /\ (pc[w] = "L119" /\ pc'[w] = "L122") =>
                  global_model_weights'[f] =
                      Fold(global_model_weights[f], total[w], drawn[w][f])
            /\ (pc[w] = "L122" /\ pc'[w] = "L125" /\ ~overlapped) =>
                  global_update_count' = before[w].count + 1
            /\ (pc[w] = "L132" /\ pc'[w] = "idle" /\ reply' # FaultReply) =>
                  /\ reply'.kind = "update" /\ reply'.status = 200
                  /\ Len(db') = Len(db) + 1]_vars

\* The only request since the start had an empty mapping and noise, and
\* has been answered 200: the weights are the noise alone.
C6_Witness ==
    /\ Quiescent /\ Accepted
    /\ handled = 1 /\ naccepted = 1
    /\ ~noiseFree
    /\ global_update_count = 1
    /\ global_model_weights = SomeNoise
    /\ Averages(reply.rows[1]) = SomeNoise

\* C7: as long as no two updates have been in flight together,
\* update_count is the number of updates the handler has taken since the
\* start, which is the number answered 200 when no store write faulted;
\* with overlap it need not be (the witness).
C7_SequentialCount ==
    (Quiescent /\ ~overlapped) =>
        /\ global_update_count = handled
        /\ ~faulted => global_update_count = naccepted

\* A lost update: two overlapping requests were both answered 200 and each
\* appended a row, and update_count is 1.
C7_Witness ==
    /\ Quiescent /\ overlapped /\ ~faulted
    /\ handled = 2 /\ naccepted = 2
    /\ Len(db) = 5
    /\ global_update_count = 1

\* C8: a process start sets the weights to 0.33/0.33/0.34 and update_count
\* to 0 and keeps every stored row, and the first update answered 200 after
\* it returns averages equal to its own noisy values.
C8_FirstAfterRestart ==
    /\ [][(~running /\ running') =>
             /\ global_model_weights' = InitialWeights
             /\ global_update_count' = 0
             /\ IsPrefix(db, db')]_vars
    /\ [][\A w \in Workers :
            (pc[w] = "L132" /\ pc'[w] = "idle" /\ reply' # FaultReply
                /\ naccepted = 0 /\ ~faulted) =>
               Averages(reply'.rows[1]) = noisy[w]]_vars

\* C9: of two rows the dashboard returns, the one inserted later (larger
\* id) never comes first (stated for rows with different timestamps, the
\* order of equal ones being the store's choice).
C9_InsertionOrder ==
    reply.kind = "dashboard" =>
        \A i, j \in 1..Len(reply.rows) :
            (i < j /\ reply.rows[i].timestamp # reply.rows[j].timestamp) =>
                reply.rows[i].id < reply.rows[j].id

\* C10: the row a request is about to store and return holds the weights
\* as they were right after that request's own fold.
C10_OwnSnapshot ==
    \A w \in Workers :
        pc[w] = "L132" => Averages(new_data_point[w]) = foldW[w]

====
